---- MODULE Spec2Model ----
(***************************************************************************)
(* users-api: registration, login and the /users CRUD routes of the two    *)
(* route modules of the repository, both served against one database:      *)
(*   "scoped" = src/unnamed/part_000 (every /users query filtered by the   *)
(*              caller's id),                                              *)
(*   "open"   = src/api/index.js     (no owner filter).                    *)
(* A handler that awaits one store call is one action.  A handler that     *)
(* awaits two store calls (POST /register, and PUT and DELETE /users/:id   *)
(* of the scoped module) is two actions with the request parked in         *)
(* `inflight` between them, so that other requests interleave there.       *)
(***************************************************************************)
EXTENDS Integers, Sequences, FiniteSets, TLC

VARIABLES
    authUsers,   \* table "AuthUser": set of [id, email, passwordHash]
    authSeq,     \* last value drawn from the SERIAL sequence of AuthUser.id
    users,       \* table "User": set of [id, name, email, age, role, adult, ownerId]
    userSeq,     \* last value drawn from the sequence of User.id
    issued,      \* tokens returned by POST /login so far (held by clients)
    now,         \* wall clock, in seconds
    inflight,    \* slot -> the request awaiting its second store call, or Idle
    last         \* the request answered (or abandoned) last, with its response

vars == <<authUsers, authSeq, users, userSeq, issued, now, inflight, last>>

----------------------------------------------------------------------------
(* Bounds of the model *)

MaxUsers == 2        \* User rows ever created
MaxTokens == 1       \* tokens ever issued

(* Input alphabets *)

Apps == {"scoped", "open"}
Undefined == "<undefined>"          \* a key absent from the JSON body
Null == "<null>"                    \* JSON null
Emails == {"a@x.com", "b@x.com"}
Passwords == {"pw123", "hunter2"}
Salts == {"salt1"}
Slots == {1, 2}                     \* requests parked between their two store calls
Idle == [kind |-> "idle"]

----------------------------------------------------------------------------
(* bcrypt *)

\* bcrypt.hash(password, 10): the hash carries its salt and cost
BcryptHash(password, salt) == [cost |-> "10", salt |-> salt, digest |-> <<salt, password>>]

\* faulty variant: a comparison that forgets the salt
BcryptCompareUnsalted(password, hash) == hash.digest = <<password>>

\* bcrypt.compare(password, hash): re-hash with the salt of the stored hash
BcryptCompare(password, hash) == BcryptHash(password, hash.salt).digest = hash.digest

----------------------------------------------------------------------------
(* jsonwebtoken *)

JWT_SECRET == "server-secret"
ExpiresInScopedMs == 300000      \* expiresIn: "300000", a string without unit: milliseconds
ExpiresInOpenS == 3600           \* expiresIn: "1h"

\* seconds a token of the given module lives
Lifetime(app) == IF app = "scoped" THEN ExpiresInScopedMs \div 1000 ELSE ExpiresInOpenS

\* jwt.sign({ id, email }, key, { expiresIn })
JwtSign(account, key, app, t) ==
    [k |-> "jwt", id |-> account.id, email |-> account.email,
     iat |-> t, exp |-> t + Lifetime(app), key |-> key]

\* faulty variant: a verification that still accepts the token at its expiry
JwtVerifyLate(word, t) ==
    /\ Len(word) = 1
    /\ word[1].k = "jwt"
    /\ word[1].key = JWT_SECRET
    /\ t <= word[1].exp

\* jwt.verify(token, JWT_SECRET, cb): token is one word of the header, a sequence
\* of atoms; it verifies when it is exactly one signed token, signed with the
\* server's secret and not expired
JwtVerify(word, t) ==
    /\ Len(word) = 1
    /\ word[1].k = "jwt"
    /\ word[1].key = JWT_SECRET
    /\ t < word[1].exp

----------------------------------------------------------------------------
(* The Authorization header: absent, or a text made of atoms: a space, a   *)
(* word without spaces, or a token.                                        *)

SP == [k |-> "sp"]
Word(w) == [k |-> "word", w |-> w]
NoHeader == [set |-> FALSE, text |-> <<>>]
Header(text) == [set |-> TRUE, text |-> text]

\* String.prototype.split(" "): the pieces between single spaces
RECURSIVE SplitFrom(_, _, _)
SplitFrom(text, i, cur) ==
    IF i > Len(text) THEN <<cur>>
    ELSE IF text[i].k = "sp" THEN <<cur>> \o SplitFrom(text, i + 1, <<>>)
    ELSE SplitFrom(text, i + 1, Append(cur, text[i]))

Split(text) == SplitFrom(text, 1, <<>>)

\* authHeader && authHeader.split(" ")[1]: <<>> stands for every falsy result
\* (undefined, "")
HeaderToken(hdr) ==
    IF ~hdr.set \/ hdr.text = <<>> THEN <<>>
    ELSE IF Len(Split(hdr.text)) < 2 THEN <<>>
    ELSE Split(hdr.text)[2]

NoUser == [id |-> 0, email |-> Undefined]

\* authenticateToken: either next() with req.user, or the response it sends
authenticateToken(app, hdr, t) ==
    LET token == HeaderToken(hdr) IN
    IF token = <<>> THEN
        [ok |-> FALSE, status |-> 401, user |-> NoUser,
         body |-> IF app = "scoped"
                  THEN [k |-> "errors", message |-> <<"No token provided">>, code |-> "NO_TOKEN"]
                  ELSE [k |-> "message", message |-> <<"No token provided">>]]
    ELSE IF ~JwtVerify(token, t) THEN
        [ok |-> FALSE, status |-> 403, user |-> NoUser,
         body |-> IF app = "scoped"
                  THEN [k |-> "errors",
                        message |-> <<"Invalid or expired token - log out and log in again">>,
                        code |-> "INVALID_TOKEN"]
                  ELSE [k |-> "errors", message |-> <<"Invalid token">>]]
    ELSE [ok |-> TRUE, status |-> 0, user |-> [id |-> token[1].id, email |-> token[1].email],
          body |-> [k |-> "none"]]

----------------------------------------------------------------------------
(* Values of a request: route parameters and body fields *)

Digits == {"0", "1", "2", "3", "4", "5", "6", "7", "8", "9"}
DigitVal(c) ==
    CASE c = "0" -> 0 [] c = "1" -> 1 [] c = "2" -> 2 [] c = "3" -> 3 [] c = "4" -> 4
      [] c = "5" -> 5 [] c = "6" -> 6 [] c = "7" -> 7 [] c = "8" -> 8 [] c = "9" -> 9
DigitChar(d) == CHOOSE c \in Digits : DigitVal(c) = d

NaN == [nan |-> TRUE, v |-> 0]
Num(v) == [nan |-> FALSE, v |-> v]

\* the digits of s from position i on, up to the first character that is no digit
RECURSIVE DigitPrefix(_, _)
DigitPrefix(s, i) ==
    IF i > Len(s) \/ s[i] \notin Digits THEN <<>>
    ELSE <<DigitVal(s[i])>> \o DigitPrefix(s, i + 1)

RECURSIVE Decimal(_)
Decimal(ds) == IF ds = <<>> THEN 0 ELSE 10 * Decimal(SubSeq(ds, 1, Len(ds) - 1)) + ds[Len(ds)]

\* parseInt(text, 10): an optional sign, then the longest prefix of digits;
\* NaN when there is no digit there
ParseInt(s) ==
    LET neg == Len(s) > 0 /\ s[1] = "-"
        ds == DigitPrefix(s, IF neg THEN 2 ELSE 1)
    IN IF ds = <<>> THEN NaN ELSE Num(IF neg THEN 0 - Decimal(ds) ELSE Decimal(ds))

\* a JSON value of the age field: absent, null, or the text of a number or string
AgeUndefined == [t |-> "undefined", s |-> <<>>]
AgeNull == [t |-> "null", s |-> <<>>]
AgeText(s) == [t |-> "text", s |-> s]

\* parseInt(req.body.age, 10); parseInt(null, 10) is NaN
ParseAge(a) == IF a.t = "text" THEN ParseInt(a.s) ELSE NaN

\* validator isInt({ min, max }): the whole text is an optionally signed run of
\* digits and its value is within the range
IsInt(a, min, max) ==
    /\ a.t = "text"
    /\ LET neg == Len(a.s) > 0 /\ a.s[1] = "-"
           from == IF neg THEN 2 ELSE 1
       IN /\ Len(a.s) >= from
          /\ \A i \in from..Len(a.s) : a.s[i] \in Digits
          /\ ParseInt(a.s).v >= min
          /\ ParseInt(a.s).v <= max

AgeMin == 0
AgeMax == 125
AdultAge == 18

\* faulty variant: isAdult with a strict comparison
isAdultStrict(age) == ~age.nan /\ age.v > AdultAge

\* isAdult, on the result of parseInt: NaN >= 18 is false
isAdult(age) == ~age.nan /\ age.v >= AdultAge

\* validator isEmail, on the addresses of the model
WellFormedEmails == {"bob@x.com", "rob@x.com"}
IsEmail(e) == e \in WellFormedEmails

Roles == {"admin", "user"}

\* a string field is falsy when absent, null or empty
Falsy(v) == v \in {Undefined, Null, ""}

----------------------------------------------------------------------------
(* Responses *)

Msg(m) == [k |-> "message", message |-> m]
NoBody == [k |-> "none"]
NoArg == [k |-> "none"]

Response(app, route, hdr, arg, status, body, ops) ==
    [app |-> app, route |-> route, hdr |-> hdr, arg |-> arg,
     status |-> status, body |-> body, ops |-> ops]

\* faulty variant: handlePrismaError without its record-not-found branch
handlePrismaErrorNoNotFound(code, action) ==
    [status |-> IF code # Undefined THEN 500 ELSE 400, body |-> Msg(<<action, "failed">>)]

\* handlePrismaError(res, err, action); err.code is Undefined when the error
\* object carries no code
handlePrismaError(code, action) ==
    IF code = "P2025" THEN [status |-> 404, body |-> Msg(<<action, "failed: record not found">>)]
    ELSE [status |-> IF code # Undefined THEN 500 ELSE 400, body |-> Msg(<<action, "failed">>)]

\* the catch blocks of src/api/index.js, which map the error themselves
openCatch(code, notFound, what) ==
    IF notFound /\ code = "P2025" THEN [status |-> 404, body |-> Msg(<<"User not found">>)]
    ELSE [status |-> 500, body |-> Msg(<<"Failed to", what>>)]

----------------------------------------------------------------------------
(* The store *)

NoRow == [id |-> 0]

\* prisma.authUser.findUnique({ where: { email } })
AuthFindUnique(email) ==
    IF \E a \in authUsers : a.email = email
    THEN CHOOSE a \in authUsers : a.email = email
    ELSE NoRow

\* faulty variant: findMany without its where clause
FindManyOfAll(ownerId) == users

\* prisma.user.findMany({ where: { ownerId } })
FindManyOwned(ownerId) == {u \in users : u.ownerId = ownerId}

\* faulty variant: deleteMany without its where clause
DeleteManyRowsOfAll(app, ownerId) == users

\* the rows prisma.user.deleteMany removes: those of the owner in the scoped
\* module ({ where: { ownerId } }), all of them in the open one (no where)
DeleteManyRows(app, ownerId) == IF app = "scoped" THEN {u \in users : u.ownerId = ownerId} ELSE users

\* faulty variant: findFirst that forgets the ownerId filter
FindFirstAnyOwner(id, ownerId) ==
    IF \E u \in users : u.id = id THEN CHOOSE u \in users : u.id = id ELSE [id |-> 0]

\* prisma.user.findFirst({ where: { id, ownerId } })
FindFirstOwned(id, ownerId) ==
    IF \E u \in users : u.id = id /\ u.ownerId = ownerId
    THEN CHOOSE u \in users : u.id = id /\ u.ownerId = ownerId
    ELSE NoRow

\* prisma.user.findUnique({ where: { id } })
FindUniqueUser(id) ==
    IF \E u \in users : u.id = id THEN CHOOSE u \in users : u.id = id ELSE NoRow

\* the row after prisma.user.update({ where: { id }, data }): the keys of data
\* replace the columns of the same name
Undef == [set |-> FALSE]
Set(v) == [set |-> TRUE, v |-> v]
ApplyUpdate(u, data) ==
    [id |-> u.id,
     name |-> IF data.name.set THEN data.name.v ELSE u.name,
     email |-> IF data.email.set THEN data.email.v ELSE u.email,
     age |-> IF data.age.set THEN data.age.v.v ELSE u.age,
     role |-> IF data.role.set THEN data.role.v ELSE u.role,
     adult |-> IF data.adult.set THEN data.adult.v ELSE u.adult,
     ownerId |-> IF data.ownerId.set THEN data.ownerId.v ELSE u.ownerId]

\* the store refuses a value its column cannot hold: null in a required text
\* column, NaN in the integer column
StoreRefuses(data) ==
    \/ data.name.set /\ data.name.v = Null
    \/ data.email.set /\ data.email.v = Null
    \/ data.role.set /\ data.role.v = Null
    \/ data.age.set /\ data.age.v.nan

----------------------------------------------------------------------------
(* What clients send *)

\* a token signed by somebody who does not hold the server's secret
ForgedTokens == {JwtSign([id |-> 1, email |-> "a@x.com"], "attacker-secret", "open", now)}

Bearer(t) == Header(<<Word("Bearer"), SP, t>>)

\* the headers of well-behaved and of guessing clients
PlainHeaders == {NoHeader} \cup {Bearer(t) : t \in issued \cup ForgedTokens}

\* every other shape of the header, for the requests that probe the guard
OddHeaders ==
    {Header(<<>>), Header(<<Word("Bearer")>>), Header(<<Word("Bearer"), SP>>)}
    \cup UNION {{Header(<<t>>),
                 Header(<<Word("Basic"), SP, t>>),
                 Header(<<Word("Bearer"), t>>),
                 Header(<<Word("Bearer"), SP, SP, t>>)} : t \in issued \cup ForgedTokens}

\* the :id route parameter: the ids in use, the next one, and texts that are no id
IdParams == {<<DigitChar(i)>> : i \in 1..(MaxUsers + 1)} \cup {<<"x">>}

Age17 == AgeText(<<"1", "7">>)
Age18 == AgeText(<<"1", "8">>)
AgeInputs == {Age17, Age18}
Age126 == AgeText(<<"1", "2", "6">>)
BadAgeInputs == {Age126, AgeText(<<"-", "1">>), AgeText(<<"x">>)}

\* a body with the four fields the handlers read ...
Body(name, email, age, role) ==
    [name |-> name, email |-> email, age |-> age, role |-> role,
     adult |-> Undef, ownerId |-> Undef]
\* ... and one that also carries the columns a client has no say in
Extra(b, adult, ownerId) == [b EXCEPT !.adult = Set(adult), !.ownerId = Set(ownerId)]

\* bodies of POST /users: the valid ones, and ways of spoiling one field
PostBodies ==
    {Body("Bob", "bob@x.com", a, "user") : a \in AgeInputs \cup {Age126, AgeUndefined}}
    \cup {Body(Undefined, "bob@x.com", Age17, "user"),
          Body("Bob", "bob-at-x", Age17, "user"),
          Body("Bob", "bob@x.com", Age17, "root"),
          Extra(Body("Bob", "bob@x.com", Age17, "user"), TRUE, 2)}

\* bodies of PUT /users/:id: nothing, name, age (valid or not), name and age,
\* and columns a client has no say in
PutBodies ==
    {Body(Undefined, Undefined, AgeUndefined, Undefined),
     Body("Bob", Undefined, AgeUndefined, Undefined),
     Body("Bob", Undefined, Age18, Undefined),
     Extra(Body(Undefined, Undefined, Age17, Undefined), TRUE, 2),
     Extra(Body("Bob", Undefined, AgeUndefined, Undefined), TRUE, 1)}
    \cup {Body(Undefined, Undefined, a, Undefined) : a \in AgeInputs \cup BadAgeInputs \cup {AgeNull}}

\* bodies of PUT /users/:id with an empty or null text field
BlankPutBodies ==
    {Body("", Undefined, AgeUndefined, Undefined),
     Body(Null, Undefined, AgeUndefined, Undefined),
     Body(Undefined, "", AgeUndefined, Undefined)}

----------------------------------------------------------------------------
(* express-validator chains: the set of fields that fail *)

\* isString: every value of the model's text fields but absent and null is a string
IsString(v) == v \notin {Undefined, Null}

\* POST /users, both modules
PostErrors(b) ==
    {f \in {"name"} : ~IsString(b.name) \/ b.name = ""}
    \cup {f \in {"email"} : Falsy(b.email) \/ ~IsEmail(b.email)}
    \cup {f \in {"age"} : ~IsInt(b.age, AgeMin, AgeMax)}
    \cup {f \in {"role"} : b.role \notin Roles}

\* faulty variant: the validators of PUT /users/:id without the chain of age
PutErrorsScopedNoAge(b) ==
    {f \in {"name"} : b.name # Undefined /\ (~IsString(b.name) \/ b.name = "")}
    \cup {f \in {"email"} : b.email # Undefined /\ (Falsy(b.email) \/ ~IsEmail(b.email))}
    \cup {f \in {"role"} : b.role # Undefined /\ b.role \notin Roles}

\* PUT /users/:id of the scoped module: optional() skips a field only when absent
PutErrorsScoped(b) ==
    {f \in {"name"} : b.name # Undefined /\ (~IsString(b.name) \/ b.name = "")}
    \cup {f \in {"email"} : b.email # Undefined /\ (Falsy(b.email) \/ ~IsEmail(b.email))}
    \cup {f \in {"age"} : b.age.t # "undefined" /\ ~IsInt(b.age, AgeMin, AgeMax)}
    \cup {f \in {"role"} : b.role # Undefined /\ b.role \notin Roles}

\* PUT /users/:id of the open module: optional({ checkFalsy: true }) skips every
\* falsy value, optional({ nullable: true }) skips absent and null
PutErrorsOpen(b) ==
    {f \in {"name"} : ~Falsy(b.name) /\ ~IsString(b.name)}
    \cup {f \in {"email"} : ~Falsy(b.email) /\ ~IsEmail(b.email)}
    \cup {f \in {"age"} : b.age.t = "text" /\ ~IsInt(b.age, AgeMin, AgeMax)}
    \cup {f \in {"role"} : ~Falsy(b.role) /\ b.role \notin Roles}

\* faulty variant: updateData that also copies the owner the body names
UpdateDataWithOwner(b) ==
    [name |-> IF b.name # Undefined THEN Set(b.name) ELSE Undef,
     email |-> IF b.email # Undefined THEN Set(b.email) ELSE Undef,
     age |-> IF b.age.t # "undefined" THEN Set(ParseAge(b.age)) ELSE Undef,
     role |-> IF b.role # Undefined THEN Set(b.role) ELSE Undef,
     adult |-> IF b.age.t # "undefined" THEN Set(isAdult(ParseAge(b.age))) ELSE Undef,
     ownerId |-> b.ownerId]

\* faulty variant: updateData that trusts the adult flag of the body
UpdateDataWithAdult(b) ==
    [name |-> IF b.name # Undefined THEN Set(b.name) ELSE Undef,
     email |-> IF b.email # Undefined THEN Set(b.email) ELSE Undef,
     age |-> IF b.age.t # "undefined" THEN Set(ParseAge(b.age)) ELSE Undef,
     role |-> IF b.role # Undefined THEN Set(b.role) ELSE Undef,
     adult |-> IF b.adult.set THEN b.adult
               ELSE IF b.age.t # "undefined" THEN Set(isAdult(ParseAge(b.age))) ELSE Undef,
     ownerId |-> Undef]

\* updateData of PUT /users/:id, both modules: the keys name, email, age and
\* role of the body that are not undefined, and adult whenever age is among
\* them; no other key of the body is copied
UpdateData(b) ==
    [name |-> IF b.name # Undefined THEN Set(b.name) ELSE Undef,
     email |-> IF b.email # Undefined THEN Set(b.email) ELSE Undef,
     age |-> IF b.age.t # "undefined" THEN Set(ParseAge(b.age)) ELSE Undef,
     role |-> IF b.role # Undefined THEN Set(b.role) ELSE Undef,
     adult |-> IF b.age.t # "undefined" THEN Set(isAdult(ParseAge(b.age))) ELSE Undef,
     ownerId |-> Undef]

----------------------------------------------------------------------------
(* Initial state: both tables empty, no token issued, nothing in flight *)

NoResponse == Response("none", "none", NoHeader, NoArg, 0, NoBody, 0)

Init ==
    /\ authUsers = {}
    /\ authSeq = 0
    /\ users = {}
    /\ userSeq = 0
    /\ issued = {}
    /\ now = 0
    /\ inflight = [s \in Slots |-> Idle]
    /\ last = NoResponse

\* Node runs one callback at a time: a callback starts when the response of
\* the one before it has left
Ready == last = NoResponse
Answer(r) == last' = r
tables == <<authUsers, authSeq, users, userSeq>>

\* the response leaves
Deliver ==
    /\ last # NoResponse
    /\ last' = NoResponse
    /\ UNCHANGED <<tables, issued, now, inflight>>

\* the request leaves the handler's first await and waits in a free slot of S
Park(S, req) == \E s \in S :
    /\ inflight[s] = Idle
    /\ \A q \in S : q < s => inflight[q] # Idle
    /\ inflight' = [inflight EXCEPT ![s] = req]

----------------------------------------------------------------------------
(* POST /register, both modules *)

Creds(email, password) == [k |-> "creds", email |-> email, password |-> password]

\* the answer to a registration whose email the pre-check finds taken
emailExists == [status |-> 400, body |-> Msg(<<"Email already exists">>)]

\* faulty variant: the table without its unique index
NoUniqueIndex(email) == FALSE

\* CREATE UNIQUE INDEX "AuthUser_email_key": an insert of a present email fails
UniqueViolation(email) == \E a \in authUsers : a.email = email

registerCatch(app, code) ==
    IF app = "scoped" THEN handlePrismaError(code, "Registration")
    ELSE [status |-> 500, body |-> Msg(<<"Registration failed">>)]

\* up to the await of bcrypt.hash: validation and the findUnique pre-check
RegisterCheck(S) ==
    /\ Ready
    /\ \E app \in Apps, email \in Emails \cup {Undefined, ""},
                           password \in Passwords \cup {Undefined, ""} :
        LET R(status, body, ops) ==
                Response(app, "POST /register", NoHeader, Creds(email, password), status, body, ops)
        IN
        IF Falsy(email) \/ Falsy(password) THEN
            /\ Answer(R(400, Msg(<<"Email and password are required">>), 0))
            /\ UNCHANGED <<tables, issued, now, inflight>>
        ELSE IF AuthFindUnique(email) # NoRow THEN
            /\ Answer(R(emailExists.status, emailExists.body, 1))
            /\ UNCHANGED <<tables, issued, now, inflight>>
        ELSE \E salt \in Salts :
            /\ Park(S, [kind |-> "register", app |-> app, email |-> email, password |-> password,
                     passwordHash |-> BcryptHash(password, salt), ops |-> 1])
            /\ UNCHANGED <<tables, issued, now, last>>

\* prisma.authUser.create and the response; the unique index on email makes
\* the insert fail with P2002, and the sequence value it drew is spent
RegisterCreate ==
    /\ Ready
    /\ \E s \in Slots :
        LET r == inflight[s]
            R(status, body) ==
                Response(r.app, "POST /register", NoHeader, Creds(r.email, r.password),
                         status, body, r.ops + 1)
        IN
        /\ r.kind = "register"
        /\ inflight' = [inflight EXCEPT ![s] = Idle]
        /\ authSeq' = authSeq + 1
        /\ IF UniqueViolation(r.email) THEN
               /\ authUsers' = authUsers
               /\ Answer(R(registerCatch(r.app, "P2002").status, registerCatch(r.app, "P2002").body))
           ELSE
               /\ authUsers' = authUsers \cup
                      {[id |-> authSeq + 1, email |-> r.email, passwordHash |-> r.passwordHash]}
               /\ Answer(R(201, [k |-> "registered", message |-> <<"User registered">>,
                                 email |-> r.email]))
        /\ UNCHANGED <<users, userSeq, issued, now>>

----------------------------------------------------------------------------
(* POST /login, both modules *)

\* faulty variant: an answer that tells the email is unknown
loginNoSuchAccount == [status |-> 404, body |-> Msg(<<"No such account">>)]

\* the answers to a login with an unknown email and with a wrong password
loginUnknownEmail == [status |-> 401, body |-> Msg(<<"Invalid email or password">>)]
loginWrongPassword == [status |-> 401, body |-> Msg(<<"Invalid email or password">>)]

Login ==
    /\ Ready
    /\ \E app \in Apps, email \in Emails \cup {Undefined, ""},
                password \in Passwords \cup {Undefined, ""} :
        LET R(status, body, ops) ==
                Response(app, "POST /login", NoHeader, Creds(email, password), status, body, ops)
            user == AuthFindUnique(email)
            token == JwtSign(user, JWT_SECRET, app, now)
        IN
        IF Falsy(email) \/ Falsy(password) THEN
            /\ Answer(R(400, Msg(<<"Email and password are required">>), 0))
            /\ UNCHANGED <<tables, issued, now, inflight>>
        ELSE IF user = NoRow THEN
            /\ Answer(R(loginUnknownEmail.status, loginUnknownEmail.body, 1))
            /\ UNCHANGED <<tables, issued, now, inflight>>
        ELSE IF ~BcryptCompare(password, user.passwordHash) THEN
            /\ Answer(R(loginWrongPassword.status, loginWrongPassword.body, 1))
            /\ UNCHANGED <<tables, issued, now, inflight>>
        ELSE
            /\ Cardinality(issued \cup {token}) <= MaxTokens
            /\ issued' = issued \cup {token}
            /\ Answer(R(200, [k |-> "token", token |-> token], 1))
            /\ UNCHANGED <<tables, now, inflight>>

\* time passes, up to the last second an issued token is valid or to its expiry
Tick ==
    /\ Ready
    /\ \E t \in issued, d \in {0, 1} :
        /\ now < t.exp - d
        /\ now' = t.exp - d
        /\ UNCHANGED <<tables, issued, inflight, last>>

----------------------------------------------------------------------------
(* The /users routes.  H is the set of Authorization headers clients send. *)

\* the guard in front of a route: GET /users and GET /users/:id of the open
\* module are registered without authenticateToken
Guarded(app, route) == app = "scoped" \/ route \notin {"GET /users", "GET /users/:id"}
Guard(app, route, hdr) ==
    IF Guarded(app, route) THEN authenticateToken(app, hdr, now)
    ELSE [ok |-> TRUE, status |-> 0, user |-> NoUser, body |-> NoBody]

IdArg(idp) == [k |-> "id", id |-> idp]
PutArg(idp, b) == [k |-> "put", id |-> idp, body |-> b]
PostArg(b) == [k |-> "post", body |-> b]
Row(u) == [k |-> "record", record |-> u]

\* GET /users
GetUsers(H) ==
    /\ Ready
    /\ \E app \in Apps, hdr \in H :
        LET g == Guard(app, "GET /users", hdr)
            R(status, body, ops) == Response(app, "GET /users", hdr, NoArg, status, body, ops)
        IN
        /\ IF ~g.ok THEN Answer(R(g.status, g.body, 0))
           ELSE IF app = "scoped"
           THEN Answer(R(200, [k |-> "list", list |-> FindManyOwned(g.user.id)], 1))
           ELSE Answer(R(200, [k |-> "list", list |-> users], 1))
        /\ UNCHANGED <<tables, issued, now, inflight>>

\* GET /users/:id
GetUser(H) ==
    /\ Ready
    /\ \E app \in Apps, hdr \in H, idp \in IdParams :
        LET g == Guard(app, "GET /users/:id", hdr)
            id == ParseInt(idp)
            R(arg, status, body, ops) ==
                Response(app, "GET /users/:id", hdr, arg, status, body, ops)
            user == IF app = "scoped" THEN FindFirstOwned(id.v, g.user.id)
                    ELSE FindUniqueUser(id.v)
        IN
        /\ IF ~g.ok THEN Answer(R(NoArg, g.status, g.body, 0))
           ELSE IF id.nan THEN Answer(R(IdArg(idp), 400, Msg(<<"Invalid ID">>), 0))
           ELSE IF user = NoRow THEN Answer(R(IdArg(idp), 404, Msg(<<"User not found">>), 1))
           ELSE Answer(R(IdArg(idp), 200, Row(user), 1))
        /\ UNCHANGED <<tables, issued, now, inflight>>

\* POST /users.  The scoped module creates the row with owner = req.user.id; a
\* connect to an account that does not exist fails in the store.  The open module
\* creates without an owner, which the required ownerId column refuses, and has
\* no try/catch around the call: the rejection escapes and nothing is answered.
PostUsers(H, B) ==
    /\ Ready
    /\ \E app \in Apps, hdr \in H :
        LET g == Guard(app, "POST /users", hdr)
            R(arg, status, body, ops) == Response(app, "POST /users", hdr, arg, status, body, ops)
        IN
        IF ~g.ok THEN
            /\ Answer(R(NoArg, g.status, g.body, 0))
            /\ UNCHANGED <<tables, issued, now, inflight>>
        ELSE \E b \in B :
            LET age == ParseAge(b.age)
                newUser == [id |-> userSeq + 1, name |-> b.name, email |-> b.email, age |-> age.v,
                            role |-> b.role, adult |-> isAdult(age), ownerId |-> g.user.id]
            IN
            IF PostErrors(b) # {} THEN
                /\ Answer(R(PostArg(b), 400, [k |-> "errors", fields |-> PostErrors(b)], 0))
                /\ UNCHANGED <<tables, issued, now, inflight>>
            ELSE IF app = "open" THEN
                /\ Answer(R(PostArg(b), 0, NoBody, 1))
                /\ UNCHANGED <<tables, issued, now, inflight>>
            ELSE IF ~\E a \in authUsers : a.id = g.user.id THEN
                /\ \E code \in {"P2025", "P2003"} :
                     Answer(R(PostArg(b), handlePrismaError(code, "Create user").status,
                              handlePrismaError(code, "Create user").body, 1))
                /\ UNCHANGED <<tables, issued, now, inflight>>
            ELSE
                /\ userSeq < MaxUsers
                /\ userSeq' = userSeq + 1
                /\ users' = users \cup {newUser}
                /\ Answer(R(PostArg(b), 201, Row(newUser), 1))
                /\ UNCHANGED <<authUsers, authSeq, issued, now, inflight>>

\* prisma.user.update({ where: { id }, data }): the error code it throws, or
\* "ok"; the data is checked before the row is looked up
UpdateOutcome(id, data) ==
    IF StoreRefuses(data) THEN Undefined
    ELSE IF FindUniqueUser(id) = NoRow THEN "P2025"
    ELSE "ok"

Updated(id, data) == ApplyUpdate(FindUniqueUser(id), data)
UsersAfterUpdate(id, data) == (users \ {FindUniqueUser(id)}) \cup {Updated(id, data)}

\* PUT /users/:id of the open module: one store call, keyed by id alone
PutUserOpen(H, B) ==
    /\ Ready
    /\ \E hdr \in H, idp \in IdParams :
        LET g == Guard("open", "PUT /users/:id", hdr)
            id == ParseInt(idp)
            R(arg, status, body, ops) ==
                Response("open", "PUT /users/:id", hdr, arg, status, body, ops)
        IN
        IF ~g.ok THEN
            /\ Answer(R(NoArg, g.status, g.body, 0))
            /\ UNCHANGED <<tables, issued, now, inflight>>
        ELSE IF id.nan THEN
            /\ Answer(R(IdArg(idp), 400, Msg(<<"Invalid ID">>), 0))
            /\ UNCHANGED <<tables, issued, now, inflight>>
        ELSE \E b \in B :
            LET data == UpdateData(b)
                out == UpdateOutcome(id.v, data)
            IN
            IF PutErrorsOpen(b) # {} THEN
                /\ Answer(R(PutArg(idp, b), 400, [k |-> "errors", fields |-> PutErrorsOpen(b)], 0))
                /\ UNCHANGED <<tables, issued, now, inflight>>
            ELSE IF out # "ok" THEN
                /\ Answer(R(PutArg(idp, b), openCatch(out, TRUE, "update user").status,
                            openCatch(out, TRUE, "update user").body, 1))
                /\ UNCHANGED <<tables, issued, now, inflight>>
            ELSE
                /\ users' = UsersAfterUpdate(id.v, data)
                /\ Answer(R(PutArg(idp, b), 200, Row(Updated(id.v, data)), 1))
                /\ UNCHANGED <<authUsers, authSeq, userSeq, issued, now, inflight>>

\* PUT /users/:id of the scoped module, up to the await of findFirst
PutUserCheck(H, B, S) ==
    /\ Ready
    /\ \E hdr \in H, idp \in IdParams :
        LET g == Guard("scoped", "PUT /users/:id", hdr)
            id == ParseInt(idp)
            R(arg, status, body, ops) ==
                Response("scoped", "PUT /users/:id", hdr, arg, status, body, ops)
        IN
        IF ~g.ok THEN
            /\ Answer(R(NoArg, g.status, g.body, 0))
            /\ UNCHANGED <<tables, issued, now, inflight>>
        ELSE IF id.nan THEN
            /\ Answer(R(IdArg(idp), 400, Msg(<<"Invalid ID">>), 0))
            /\ UNCHANGED <<tables, issued, now, inflight>>
        ELSE \E b \in B :
            IF PutErrorsScoped(b) # {} THEN
                /\ Answer(R(PutArg(idp, b), 400, [k |-> "errors", fields |-> PutErrorsScoped(b)], 0))
                /\ UNCHANGED <<tables, issued, now, inflight>>
            ELSE IF FindFirstOwned(id.v, g.user.id) = NoRow THEN
                /\ Answer(R(PutArg(idp, b), 404, Msg(<<"User not found">>), 1))
                /\ UNCHANGED <<tables, issued, now, inflight>>
            ELSE
                /\ Park(S, [kind |-> "put", hdr |-> hdr, arg |-> PutArg(idp, b), id |-> id.v,
                         data |-> UpdateData(b), ops |-> 1])
                /\ UNCHANGED <<tables, issued, now, last>>

\* ... and its prisma.user.update({ where: { id }, data }) with the response
PutUserWrite ==
    /\ Ready
    /\ \E s \in Slots :
        LET r == inflight[s]
            out == UpdateOutcome(r.id, r.data)
            R(status, body) ==
                Response("scoped", "PUT /users/:id", r.hdr, r.arg, status, body, r.ops + 1)
        IN
        /\ r.kind = "put"
        /\ inflight' = [inflight EXCEPT ![s] = Idle]
        /\ IF out # "ok" THEN
               /\ Answer(R(handlePrismaError(out, "Update user").status,
                           handlePrismaError(out, "Update user").body))
               /\ users' = users
           ELSE
               /\ users' = UsersAfterUpdate(r.id, r.data)
               /\ Answer(R(200, Row(Updated(r.id, r.data))))
        /\ UNCHANGED <<authUsers, authSeq, userSeq, issued, now>>

\* DELETE /users/:id of the open module
DeleteUserOpen(H) ==
    /\ Ready
    /\ \E hdr \in H, idp \in IdParams :
        LET g == Guard("open", "DELETE /users/:id", hdr)
            id == ParseInt(idp)
            R(arg, status, body, ops) ==
                Response("open", "DELETE /users/:id", hdr, arg, status, body, ops)
        IN
        IF ~g.ok THEN
            /\ Answer(R(NoArg, g.status, g.body, 0))
            /\ UNCHANGED <<tables, issued, now, inflight>>
        ELSE IF id.nan THEN
            /\ Answer(R(IdArg(idp), 400, Msg(<<"Invalid ID">>), 0))
            /\ UNCHANGED <<tables, issued, now, inflight>>
        ELSE IF FindUniqueUser(id.v) = NoRow THEN
            /\ Answer(R(IdArg(idp), openCatch("P2025", TRUE, "delete user").status,
                        openCatch("P2025", TRUE, "delete user").body, 1))
            /\ UNCHANGED <<tables, issued, now, inflight>>
        ELSE
            /\ users' = users \ {FindUniqueUser(id.v)}
            /\ Answer(R(IdArg(idp), 204, NoBody, 1))
            /\ UNCHANGED <<authUsers, authSeq, userSeq, issued, now, inflight>>

\* DELETE /users/:id of the scoped module, up to the await of findFirst
DeleteUserCheck(H, S) ==
    /\ Ready
    /\ \E hdr \in H, idp \in IdParams :
        LET g == Guard("scoped", "DELETE /users/:id", hdr)
            id == ParseInt(idp)
            R(arg, status, body, ops) ==
                Response("scoped", "DELETE /users/:id", hdr, arg, status, body, ops)
        IN
        IF ~g.ok THEN
            /\ Answer(R(NoArg, g.status, g.body, 0))
            /\ UNCHANGED <<tables, issued, now, inflight>>
        ELSE IF id.nan THEN
            /\ Answer(R(IdArg(idp), 400, Msg(<<"Invalid ID">>), 0))
            /\ UNCHANGED <<tables, issued, now, inflight>>
        ELSE IF FindFirstOwned(id.v, g.user.id) = NoRow THEN
            /\ Answer(R(IdArg(idp), 404, Msg(<<"User not found">>), 1))
            /\ UNCHANGED <<tables, issued, now, inflight>>
        ELSE
            /\ Park(S, [kind |-> "delete", hdr |-> hdr, arg |-> IdArg(idp), id |-> id.v,
                         ops |-> 1])
            /\ UNCHANGED <<tables, issued, now, last>>

\* ... and its prisma.user.delete({ where: { id } }) with the response
DeleteUserWrite ==
    /\ Ready
    /\ \E s \in Slots :
        LET r == inflight[s]
            R(status, body) ==
                Response("scoped", "DELETE /users/:id", r.hdr, r.arg, status, body, r.ops + 1)
        IN
        /\ r.kind = "delete"
        /\ inflight' = [inflight EXCEPT ![s] = Idle]
        /\ IF FindUniqueUser(r.id) = NoRow THEN
               /\ Answer(R(handlePrismaError("P2025", "Delete user").status,
                           handlePrismaError("P2025", "Delete user").body))
               /\ users' = users
           ELSE
               /\ users' = users \ {FindUniqueUser(r.id)}
               /\ Answer(R(204, NoBody))
        /\ UNCHANGED <<authUsers, authSeq, userSeq, issued, now>>

\* DELETE /users: deleteMany({ where: { ownerId } }) in the scoped module,
\* deleteMany() in the open one
DeleteUsers(H) ==
    /\ Ready
    /\ \E app \in Apps, hdr \in H :
        LET g == Guard(app, "DELETE /users", hdr)
            R(status, body, ops) == Response(app, "DELETE /users", hdr, NoArg, status, body, ops)
            gone == DeleteManyRows(app, g.user.id)
        IN
        IF ~g.ok THEN
            /\ Answer(R(g.status, g.body, 0))
            /\ UNCHANGED <<tables, issued, now, inflight>>
        ELSE
            /\ users' = users \ gone
            /\ Answer(IF app = "scoped"
                      THEN R(200, [k |-> "deleted", deleted |-> Cardinality(gone)], 1)
                      ELSE R(204, NoBody, 1))
            /\ UNCHANGED <<authUsers, authSeq, userSeq, issued, now, inflight>>

----------------------------------------------------------------------------
(* Specification Spec: the credential store.  From an empty database,      *)
(* clients register and log in through both modules, two registrations at  *)
(* a time between their pre-check and their insert; time passes; GET       *)
(* /users is called with the tokens issued.                                *)

Next ==
    \/ RegisterCheck(Slots)
    \/ RegisterCreate
    \/ Login
    \/ Tick
    \/ Deliver
    \/ GetUsers(PlainHeaders)

Spec == Init /\ [][Next]_vars

----------------------------------------------------------------------------
(* A database in which two accounts are registered and each holds a token, *)
(* one issued by each module: what two registrations and a login of each   *)
(* account at time 0 leave (Spec itself issues no more than MaxTokens).    *)

AccountA == [id |-> 1, email |-> "a@x.com", passwordHash |-> BcryptHash("pw123", "salt1")]
AccountB == [id |-> 2, email |-> "b@x.com", passwordHash |-> BcryptHash("hunter2", "salt1")]
TokenA == JwtSign(AccountA, JWT_SECRET, "scoped", 0)
TokenB == JwtSign(AccountB, JWT_SECRET, "open", 0)

Seeded ==
    /\ authUsers = {AccountA, AccountB}
    /\ authSeq = 2
    /\ users = {}
    /\ userSeq = 0
    /\ issued = {TokenA, TokenB}
    /\ now = 0
    /\ inflight = [s \in Slots |-> Idle]
    /\ last = NoResponse

----------------------------------------------------------------------------
(* Specification SpecGuard: the guard.  Against the seeded database, every *)
(* route is called with every shape of Authorization header while time     *)
(* passes and the tokens expire; no client sends a POST /users body that   *)
(* passes validation, so the User table stays empty.                       *)

AllHeaders == PlainHeaders \cup OddHeaders
InvalidPostBodies == {b \in PostBodies : PostErrors(b) # {}}
NoPutBodies == {Body(Undefined, Undefined, AgeUndefined, Undefined)}
OneSlot == {1}

NextGuard ==
    \/ Tick
    \/ Deliver
    \/ GetUsers(AllHeaders)
    \/ GetUser(AllHeaders)
    \/ PostUsers(AllHeaders, InvalidPostBodies)
    \/ PutUserOpen(AllHeaders, NoPutBodies)
    \/ PutUserCheck(AllHeaders, NoPutBodies, OneSlot)
    \/ DeleteUserOpen(AllHeaders)
    \/ DeleteUserCheck(AllHeaders, OneSlot)
    \/ DeleteUsers(AllHeaders)

SpecGuard == Seeded /\ [][NextGuard]_vars

----------------------------------------------------------------------------
(* Specification SpecRecords: the /users routes of both modules against    *)
(* the seeded database.  One request at a time is parked between its two   *)
(* store calls; every other request interleaves with it.                   *)

NextRecords ==
    \/ Deliver
    \/ GetUsers(PlainHeaders)
    \/ GetUser(PlainHeaders)
    \/ PostUsers(PlainHeaders, PostBodies)
    \/ PutUserOpen(PlainHeaders, PutBodies)
    \/ PutUserCheck(PlainHeaders, PutBodies, OneSlot)
    \/ PutUserWrite
    \/ DeleteUserOpen(PlainHeaders)
    \/ DeleteUserCheck(PlainHeaders, OneSlot)
    \/ DeleteUserWrite
    \/ DeleteUsers(PlainHeaders)

SpecRecords == Seeded /\ [][NextRecords]_vars

----------------------------------------------------------------------------
(* Specification SpecFaults: the store fails.  A request that has passed   *)
(* the guard and the validation makes its first store call, the call       *)
(* throws, and the catch block of the handler answers.  POST /users of the *)
(* open module has no catch block: PostUsers models it.                    *)

\* what the store throws when it fails for a reason of its own: an error with
\* a code (P1008, operation timed out) or an error object without a code
\* (the client could not reach the database, or rejected the query)
StoreErrors == {"P1008", Undefined}

Routes == {"GET /users", "GET /users/:id", "POST /users", "PUT /users/:id",
           "DELETE /users/:id", "DELETE /users", "POST /register", "POST /login"}

\* the action name a handler of the scoped module passes to handlePrismaError
ActionName(route) ==
    CASE route = "GET /users" -> "Fetch users"
      [] route = "GET /users/:id" -> "Fetch user"
      [] route = "POST /users" -> "Create user"
      [] route = "PUT /users/:id" -> "Update user"
      [] route = "DELETE /users/:id" -> "Delete user"
      [] route = "DELETE /users" -> "Delete all users"
      [] route = "POST /register" -> "Registration"
      [] route = "POST /login" -> "Login"

\* the catch block of a handler of the open module
OpenCatchOf(route, code) ==
    CASE route = "GET /users" -> openCatch(code, FALSE, "fetch users")
      [] route = "GET /users/:id" -> openCatch(code, FALSE, "fetch user")
      [] route = "PUT /users/:id" -> openCatch(code, TRUE, "update user")
      [] route = "DELETE /users/:id" -> openCatch(code, TRUE, "delete user")
      [] route = "DELETE /users" -> openCatch(code, FALSE, "delete all users")
      [] route = "POST /register" -> registerCatch("open", code)
      [] route = "POST /login" -> [status |-> 500, body |-> Msg(<<"Login failed">>)]

CatchOf(app, route, code) ==
    IF app = "scoped" THEN handlePrismaError(code, ActionName(route))
    ELSE OpenCatchOf(route, code)

FaultArg(code) == [k |-> "fault", code |-> code]

StoreFault(H) ==
    /\ Ready
    /\ \E app \in Apps, route \in Routes, hdr \in H, code \in StoreErrors :
        LET public == route \in {"POST /register", "POST /login"}
            g == Guard(app, route, hdr)
            c == CatchOf(app, route, code)
        IN
        /\ ~(app = "open" /\ route = "POST /users")
        /\ IF public THEN hdr = NoHeader ELSE g.ok
        /\ Answer(Response(app, route, hdr, FaultArg(code), c.status, c.body, 1))
        /\ UNCHANGED <<tables, issued, now, inflight>>

NextFaults ==
    \/ Deliver
    \/ StoreFault(PlainHeaders)
    \/ PostUsers(PlainHeaders, PostBodies)
    \/ GetUser(PlainHeaders)

SpecFaults == Seeded /\ [][NextFaults]_vars

----------------------------------------------------------------------------
(* Specification SpecValidation: what the handlers validate.  Against the  *)
(* seeded database clients register and log in (both emails are taken, so  *)
(* no registration gets past its pre-check) and POST and PUT rows with     *)
(* valid and invalid bodies and ids.                                       *)

NextValidation ==
    \/ Deliver
    \/ RegisterCheck(OneSlot)
    \/ Login
    \/ PostUsers(PlainHeaders, PostBodies)
    \/ PutUserCheck(PlainHeaders, PutBodies \cup BlankPutBodies, OneSlot)
    \/ PutUserWrite

SpecValidation == Seeded /\ [][NextValidation]_vars

----------------------------------------------------------------------------
(* Specification SpecFields: what reaches the columns.  Against the seeded *)
(* database rows are created and both modules are sent PUT bodies with an  *)
(* empty or null text field, or with a name.                               *)

FieldPutBodies == BlankPutBodies \cup {Body("Bob", Undefined, AgeUndefined, Undefined)}

NextFields ==
    \/ Deliver
    \/ PostUsers(PlainHeaders, PostBodies)
    \/ PutUserOpen(PlainHeaders, FieldPutBodies)
    \/ PutUserCheck(PlainHeaders, FieldPutBodies, OneSlot)
    \/ PutUserWrite

SpecFields == Seeded /\ [][NextFields]_vars

----------------------------------------------------------------------------
(* Specification SpecRace: check, then write.  Against the seeded database *)
(* rows are created, and two requests at a time wait between the findFirst *)
(* and the update or delete of the scoped module while other requests      *)
(* delete rows.                                                            *)

RacePostBodies == {Body("Bob", "bob@x.com", Age17, "user")}
RacePutBodies == {Body(Undefined, Undefined, Age18, Undefined)}

NextRace ==
    \/ Deliver
    \/ PostUsers(PlainHeaders, RacePostBodies)
    \/ PutUserCheck(PlainHeaders, RacePutBodies, Slots)
    \/ PutUserWrite
    \/ DeleteUserCheck(PlainHeaders, Slots)
    \/ DeleteUserWrite
    \/ DeleteUsers(PlainHeaders)

SpecRace == Seeded /\ [][NextRace]_vars

----------------------------------------------------------------------------
(* Vocabulary of the properties *)

\* this step answers a request
Answers == last = NoResponse /\ last' # NoResponse

\* the header is exactly "Bearer <token>"
BearerShaped(hdr) ==
    /\ hdr.set
    /\ Len(hdr.text) = 3
    /\ hdr.text[1] = Word("Bearer")
    /\ hdr.text[2] = SP
    /\ hdr.text[3].k # "sp"

\* the header is "Bearer <token>" with a token Login issued that has not expired
ByAccount(hdr) == BearerShaped(hdr) /\ hdr.text[3] \in issued /\ now < hdr.text[3].exp
CallerId(hdr) == hdr.text[3].id

ById == {"GET /users/:id", "PUT /users/:id", "DELETE /users/:id"}
UsersRoutes == ById \cup {"GET /users", "POST /users", "DELETE /users"}

\* the request names row u in its :id parameter
Targets(r, u) == r.arg.k \in {"id", "put"} /\ r.arg.id = <<DigitChar(u.id)>>
\* the request names, with a numeric :id, a row that does not exist
TargetsNothing(r) ==
    /\ r.arg.k \in {"id", "put"}
    /\ r.arg.id \in {<<DigitChar(i)>> : i \in 1..(MaxUsers + 1)}
    /\ \A u \in users : ~Targets(r, u)

NotFound(r) == r.status = 404 /\ r.body = Msg(<<"User not found">>)

\* a request of the scoped module, by id, with a valid token of an account
ScopedById(r) == r.app = "scoped" /\ r.route \in ById /\ ByAccount(r.hdr)

\* C1 as stated: in the scoped module a GET, PUT or DELETE /users/:id with a valid
\* token of account A on a row of another account B is answered 404 "User not
\* found", the answer for an id that does not exist, never returns the row and
\* leaves the table unchanged.
C1_ForeignRecordAnswered404 ==
    [][(Answers /\ ScopedById(last'))
         => \A u \in users :
                 (Targets(last', u) /\ u.ownerId # CallerId(last'.hdr))
                     => (NotFound(last') /\ users' = users)]_vars

\* C1 as amended: ... is answered exactly as the same request for an id that
\* does not exist is: 400 with the validation errors when it is a PUT whose body
\* fails validation, 404 "User not found" otherwise; the row is never returned
\* and the table is unchanged.
BodyRejected(r) == r.route = "PUT /users/:id" /\ PutErrorsScoped(r.arg.body) # {}
AsIfAbsent(r) ==
    IF BodyRejected(r)
    THEN r.status = 400 /\ r.body = [k |-> "errors", fields |-> PutErrorsScoped(r.arg.body)]
    ELSE NotFound(r)

C1_ForeignRecordAsIfAbsent ==
    [][(Answers /\ ScopedById(last'))
         => /\ \A u \in users :
                 (Targets(last', u) /\ u.ownerId # CallerId(last'.hdr))
                     => (AsIfAbsent(last') /\ users' = users)
            /\ (TargetsNothing(last') /\ last'.ops <= 1)
                     => (AsIfAbsent(last') /\ users' = users)]_vars

\* account A has just been refused a well-formed age update of a row of B
C1_Witness ==
    /\ last.app = "scoped" /\ last.route = "PUT /users/:id"
    /\ last.hdr = Bearer(TokenA)
    /\ last.arg.k = "put" /\ last.arg.body.age = Age18
    /\ NotFound(last)
    /\ \E u \in users : Targets(last, u) /\ u.ownerId = AccountB.id /\ u.age = 17

----------------------------------------------------------------------------
(* The guard *)

\* a piece of a header that is a token the server would verify
Verifies(p) == p.k = "jwt" /\ p.key = JWT_SECRET /\ now < p.exp
\* the header is absent, or no piece of it is a token that verifies
NoValidToken(hdr) == \A i \in 1..Len(hdr.text) : ~Verifies(hdr.text[i])

\* C2 as stated: in both modules, a request on any /users route that carries no
\* bearer token, or a token that fails verification, is answered 401 or 403
\* and no store operation was made for it.
C2_NoTokenNoStoreAccess ==
    (last.route \in UsersRoutes /\ NoValidToken(last.hdr))
        => (last.status \in {401, 403} /\ last.ops = 0)

noTokenScoped ==
    [k |-> "errors", message |-> <<"No token provided">>, code |-> "NO_TOKEN"]

\* C10 as stated: in the scoped module, a request on a guarded route whose
\* Authorization header is absent or is not "Bearer <token>" is answered 401
\* with code NO_TOKEN, and its handler does not run.
C10_MalformedHeaderIsNoToken ==
    (last.app = "scoped" /\ last.route \in UsersRoutes /\ ~BearerShaped(last.hdr))
        => (last.status = 401 /\ last.body = noTokenScoped /\ last.ops = 0)

----------------------------------------------------------------------------
(* The rows *)

\* C7: every stored row has adult = (age >= 18), whatever POSTs and PUTs, with
\* or without an age, made it.
C7_AdultIffAtLeast18 == \A u \in users : u.adult = (u.age >= 18)

\* a PUT has just raised a row's age to 18, and a row of 17 is stored too
C7_Witness ==
    /\ last.route = "PUT /users/:id" /\ last.status = 200
    /\ last.arg.k = "put" /\ last.arg.body.age = Age18
    /\ \E u \in users : Targets(last, u) /\ u.age = 18 /\ u.adult
    /\ \E u \in users : u.age = 17 /\ ~u.adult

\* C8 as stated: in both modules, DELETE /users with a valid token of account A
\* removes only rows of A: every row of another account is still there,
\* unchanged, and the accounts are unchanged.
C8_DeleteAllKeepsOthers ==
    [][(Answers /\ last'.route = "DELETE /users" /\ ByAccount(last'.hdr))
         => /\ \A u \in users : u.ownerId # CallerId(last'.hdr) => u \in users'
            /\ users' \subseteq users
            /\ authUsers' = authUsers]_vars

\* C9: in the scoped module, DELETE /users with a valid token of account A
\* answers 200 with deleted = the number of rows A owned just before, and
\* afterwards A owns no row.
C9_DeleteAllCountsOwn ==
    [][(Answers /\ last'.app = "scoped" /\ last'.route = "DELETE /users"
                /\ ByAccount(last'.hdr))
         => /\ last'.status = 200
            /\ last'.body = [k |-> "deleted", deleted |->
                   Cardinality({u \in users : u.ownerId = CallerId(last'.hdr)})]
            /\ \A u \in users' : u.ownerId # CallerId(last'.hdr)]_vars

\* account A has just deleted its one row while a row of B stays
C9_Witness ==
    /\ last.app = "scoped" /\ last.route = "DELETE /users"
    /\ last.hdr = Bearer(TokenA)
    /\ last.body = [k |-> "deleted", deleted |-> 1]
    /\ \E u \in users : u.ownerId = AccountB.id

----------------------------------------------------------------------------
(* The accounts *)

Conflict(r) == r.status = 400 /\ r.body = Msg(<<"Email already exists">>)
Taken(email) == \E a \in authUsers : a.email = email
UniqueEmails == \A a, b \in authUsers : a.email = b.email => a = b

\* C3: a Register with an email and a password that runs from request to
\* response with nothing in between, for an email an account already has, is
\* answered 400 "Email already exists" and creates no account; and no two
\* accounts ever have the same email.
C3_DuplicateEmailRejected ==
    /\ []UniqueEmails
    /\ [][(Answers /\ last'.route = "POST /register" /\ inflight' = inflight
                   /\ ~Falsy(last'.arg.password) /\ Taken(last'.arg.email))
             => (Conflict(last') /\ authUsers' = authUsers /\ authSeq' = authSeq)]_vars

\* a registration of the email of the one account there is has been refused
C3_Witness ==
    /\ last.route = "POST /register" /\ Conflict(last)
    /\ Cardinality({a \in authUsers : a.email = last.arg.email}) = 1

\* C4 as stated: a Register that passed the pre-check and whose create then
\* finds the email taken by a racing Register creates no account and is
\* answered like a sequential duplicate, 400 "Email already exists".
C4_RaceLoserGetsConflict ==
    [][(Answers /\ last'.route = "POST /register" /\ last'.ops = 2
                /\ Taken(last'.arg.email))
         => (Conflict(last') /\ authUsers' = authUsers)]_vars

\* the password the account was registered with
RegisteredWith(a, password) == \E salt \in Salts : a.passwordHash = BcryptHash(password, salt)
Matches(c) == \E a \in authUsers : a.email = c.email /\ RegisteredWith(a, c.password)

\* C5: a Register answered 201 has made an account with its email and
\* password; a Login with the email and password of an account is answered 200
\* with a token; and every token issued, presented as "Bearer <token>" before
\* its expiry, passes authenticateToken and a guarded route, resolving to the id
\* and email of the account it was issued for.
C5_RegisterLoginVerify ==
    /\ (last.route = "POST /register" /\ last.status = 201) => Matches(last.arg)
    /\ (last.route = "POST /login" /\ Matches(last.arg))
           => (last.status = 200 /\ last.body.k = "token" /\ last.body.token \in issued
               /\ \E a \in authUsers :
                      /\ a.email = last.arg.email
                      /\ last.body.token.id = a.id /\ last.body.token.email = a.email)
    /\ \A t \in issued : now < t.exp =>
           \A app \in Apps :
               LET g == authenticateToken(app, Bearer(t), now) IN
               /\ g.ok
               /\ \E a \in authUsers : g.user = [id |-> a.id, email |-> a.email]
    /\ (last.route = "GET /users" /\ ByAccount(last.hdr)) => last.status = 200

\* in the last second of its life, a token that a registered account logged
\* in for has just been accepted by a guarded route
C5_Witness ==
    /\ last.app = "scoped" /\ last.route = "GET /users" /\ last.status = 200
    /\ \E t \in issued :
           /\ last.hdr = Bearer(t) /\ now = t.exp - 1 /\ t.iat < now
           /\ \E a \in authUsers : a.id = t.id /\ a.email = t.email

\* C6: a Login with an email no account has and a Login with the email of an
\* account and another password than its own get the same answer, 401
\* "Invalid email or password", and no token is issued.
C6_LoginFailuresAlike ==
    [][(Answers /\ last'.route = "POST /login"
                /\ ~Falsy(last'.arg.email) /\ ~Falsy(last'.arg.password)
                /\ ~Matches(last'.arg))
         => /\ last'.status = 401
            /\ last'.body = Msg(<<"Invalid email or password">>)
            /\ issued' = issued]_vars

\* a login with the email of an account and a wrong password has been refused
\* while another email is still unknown
C6_Witness ==
    /\ last.route = "POST /login" /\ last.status = 401
    /\ Taken(last.arg.email) /\ ~Matches(last.arg)
    /\ \E e \in Emails : ~Taken(e)

----------------------------------------------------------------------------
(* The life of a token *)

invalidTokenScoped ==
    [k |-> "errors", message |-> <<"Invalid or expired token - log out and log in again">>,
     code |-> "INVALID_TOKEN"]

\* C11: in the scoped module a request with the header "Bearer <token>" passes
\* the guard exactly when the token is signed with the server's secret and the
\* time is before its exp; otherwise it is answered 403 with code INVALID_TOKEN
\* and no store call is made.  So a token Login issued passes on every request
\* before its expiry and is refused on every request from its expiry on.
C11_TokenAcceptedIffValid ==
    (last.app = "scoped" /\ last.route \in UsersRoutes
                         /\ BearerShaped(last.hdr) /\ last.hdr.text[3].k = "jwt")
        => IF Verifies(last.hdr.text[3])
           THEN last.status \notin {401, 403}
           ELSE last.status = 403 /\ last.body = invalidTokenScoped /\ last.ops = 0

\* a token Login issued has just been refused at the second of its expiry
C11_Witness ==
    /\ last.app = "scoped" /\ last.route = "DELETE /users"
    /\ last.hdr = Bearer(TokenA) /\ now = TokenA.exp
    /\ last.status = 403 /\ last.body = invalidTokenScoped
    /\ TokenA \in issued

----------------------------------------------------------------------------
(* Ownership *)

\* C12: in the scoped module a POST /users answered 201 has stored one new row
\* whose owner is the account of the caller's token; every stored row's owner
\* is the id of exactly one account; and no step, a PUT whose body names an
\* ownerId included, changes the owner of a row.
C12_OwnerIsCallerAndFixed ==
    /\ [][(Answers /\ last'.app = "scoped" /\ last'.route = "POST /users"
                   /\ last'.status = 201)
             => /\ BearerShaped(last'.hdr)
                /\ \E u \in users' \ users :
                       /\ users' = users \cup {u}
                       /\ u.ownerId = CallerId(last'.hdr)
                       /\ last'.body = Row(u)]_vars
    /\ [](\A u \in users : Cardinality({a \in authUsers : a.id = u.ownerId}) = 1)
    /\ [][\A u \in users, v \in users' : u.id = v.id => v.ownerId = u.ownerId]_vars

\* account A's row has just been through a PUT whose body named B as owner
C12_Witness ==
    /\ last.route = "PUT /users/:id" /\ last.status = 200
    /\ last.arg.body.ownerId = Set(AccountB.id)
    /\ last.body.record.ownerId = AccountA.id
    /\ last.body.record \in users

\* C13: in the scoped module GET /users with a valid token of account A is
\* answered 200 with exactly the stored rows whose owner is A.
C13_ListIsOwnRows ==
    (last.app = "scoped" /\ last.route = "GET /users" /\ ByAccount(last.hdr))
        => /\ last.status = 200
           /\ last.body = [k |-> "list", list |->
                  {u \in users : u.ownerId = CallerId(last.hdr)}]

\* account A has just listed its one row while B has a row too
C13_Witness ==
    /\ last.app = "scoped" /\ last.route = "GET /users" /\ last.hdr = Bearer(TokenA)
    /\ last.status = 200 /\ Cardinality(last.body.list) = 1
    /\ \E u \in users : u.ownerId = AccountB.id

----------------------------------------------------------------------------
(* Failures *)

\* C14 as stated: when the store call of a handler fails with anything but
\* record-not-found, the handler answers 500, whether or not the error object
\* carries a code.
C14_StoreFailureIs500 ==
    (last.arg.k = "fault" /\ last.arg.code # "P2025") => last.status = 500

\* a body POST /users must refuse: a missing or invalid name, email, age or role
InvalidPost(b) ==
    \/ b.name \in {Undefined, Null, ""}
    \/ b.email \notin WellFormedEmails
    \/ ~IsInt(b.age, 0, 125)
    \/ b.role \notin {"admin", "user"}

\* a body PUT /users/:id must refuse: a supplied field that is invalid
InvalidPut(b) ==
    \/ b.name \in {Null, ""}
    \/ b.email # Undefined /\ b.email \notin WellFormedEmails
    \/ b.age.t # "undefined" /\ ~IsInt(b.age, 0, 125)
    \/ b.role # Undefined /\ b.role \notin {"admin", "user"}

FailsValidation(r) ==
    \/ r.route \in {"POST /register", "POST /login"} /\ r.arg.k = "creds"
           /\ (Falsy(r.arg.email) \/ Falsy(r.arg.password))
    \/ r.route = "POST /users" /\ r.arg.k = "post" /\ InvalidPost(r.arg.body)
    \/ r.app = "scoped" /\ r.route = "PUT /users/:id" /\ r.arg.k = "put"
           /\ InvalidPut(r.arg.body)
    \/ r.app = "scoped" /\ r.route = "PUT /users/:id" /\ r.arg.k = "id"
           /\ r.arg.id \notin {<<DigitChar(i)>> : i \in 1..9}

C16_EveryHandlerAnswers ==
    last # NoResponse => last.status \in 100..599

----------------------------------------------------------------------------
(* The columns *)

\* C17 as stated: every stored row has an integer age in 0..125, a role that
\* is admin or user, and a name and an email that are not empty, whatever POSTs
\* and PUTs, with empty or null fields too, were accepted.
C17_ColumnsInRange ==
    \A u \in users :
        /\ u.age \in 0..125
        /\ u.role \in {"admin", "user"}
        /\ u.name \notin {"", Null, Undefined}
        /\ u.email \notin {"", Null, Undefined}

\* the row a PUT with body b must leave in place of row u
Supplied(b, u) ==
    [id |-> u.id,
     name |-> IF b.name # Undefined THEN b.name ELSE u.name,
     email |-> IF b.email # Undefined THEN b.email ELSE u.email,
     age |-> IF b.age.t # "undefined" THEN ParseAge(b.age).v ELSE u.age,
     role |-> IF b.role # Undefined THEN b.role ELSE u.role,
     adult |-> IF b.age.t # "undefined" THEN ParseAge(b.age).v >= 18 ELSE u.adult,
     ownerId |-> u.ownerId]

\* C18: a PUT /users/:id answered 200 replaces the row it names by that row
\* with the supplied name, email, age and role, and adult derived from a
\* supplied age; fields not supplied, id and owner keep their values, an adult
\* or ownerId of the body is not stored, and every other row is unchanged.
C18_PutChangesSuppliedFieldsOnly ==
    [][(Answers /\ last'.route = "PUT /users/:id" /\ last'.status = 200)
         => \E u \in users :
                /\ Targets(last', u)
                /\ last'.body = Row(Supplied(last'.arg.body, u))
                /\ users' = (users \ {u}) \cup {Supplied(last'.arg.body, u)}]_vars

\* a PUT whose body says adult has just left a row of 17 not adult
C18_Witness ==
    /\ last.app = "scoped" /\ last.route = "PUT /users/:id" /\ last.status = 200
    /\ last.arg.body.adult = Set(TRUE)
    /\ last.arg.body.age = AgeUndefined
    /\ last.body.record.age = 17 /\ ~last.body.record.adult
    /\ last.body.record \in users /\ Cardinality(users) = 2

----------------------------------------------------------------------------
(* Check, then write *)

\* C19: when a PUT or DELETE /users/:id of the scoped module, parked after its
\* findFirst, makes its write, every row of another owner than the caller stays
\* as it is; and if the row it names is gone by then, the request is answered
\* 404 and no row is changed.
C19_WriteAfterCheckStaysOwn ==
    [][\A s \in Slots :
          (inflight[s].kind \in {"put", "delete"} /\ inflight'[s] = Idle)
              => /\ \A u \in users : u.ownerId # CallerId(inflight[s].hdr) => u \in users'
                 /\ \A v \in users' : v.ownerId # CallerId(inflight[s].hdr) => v \in users
                 /\ (\A u \in users : u.id # inflight[s].id)
                        => (last'.status = 404 /\ users' = users)]_vars

\* a PUT has just found the row it had checked gone, while a row of another
\* account is stored
C19_Witness ==
    /\ last.app = "scoped" /\ last.route = "PUT /users/:id"
    /\ last.status = 404 /\ last.ops = 2
    /\ \A u \in users : ~Targets(last, u)
    /\ \E u \in users : u.ownerId # CallerId(last.hdr)

====
